---- MODULE Spec2Model ----
(***************************************************************************)
(* privpay: the BIP351 private-payments command line tool (src/main.rs).   *)
(*                                                                         *)
(* One command run is modelled step by step: argument decoding, the seed   *)
(* prompt, the construction of the sender/recipient and of the commitment, *)
(* one key derivation per index of the range, and the assembly of the      *)
(* output.  A second run may follow a first one: the same command in the   *)
(* other output mode, or `receiver decode` fed with the notification that  *)
(* `sender notify` has just printed.                                       *)
(*                                                                         *)
(* The derivation engine (crate bip351) and the script/hex helpers (crate  *)
(* bitcoin) are not part of src/; they are modelled after spec.md over a    *)
(* small multiplicative group: keys are exponents, public keys are group   *)
(* elements, ECDH is exponentiation.                                       *)
(***************************************************************************)
EXTENDS Integers, Sequences, FiniteSets, TLC

(***************************************************************************)
(* Bounds of the model.                                                    *)
(***************************************************************************)
\* The largest index value: stands for u64::MAX, scaled down.
U64Max == 2
\* Payloads handed to `receiver decode` are padded up to this many bytes
\* beyond the direct-push limit.
PadOver == 1

(***************************************************************************)
(* Generic helpers.                                                        *)
(***************************************************************************)
Min(a, b) == IF a <= b THEN a ELSE b

Max(a, b) == IF a >= b THEN a ELSE b

Ok(v) == [ok |-> TRUE, val |-> v]

Err(e) == [ok |-> FALSE, err |-> e]

None == [some |-> FALSE]

Some(v) == [some |-> TRUE, val |-> v]

\* s[from..] of a Rust slice, 0-based; a start past the end panics
SliceFrom(s, from) == SubSeq(s, from + 1, Len(s))

StartsWith(s, p) == Len(s) >= Len(p) /\ SubSeq(s, 1, Len(p)) = p

Zeros(n) == [i \in 1..n |-> 0]

(***************************************************************************)
(* Hex: bitcoin::hashes::hex::{ToHex, FromHex}.                            *)
(***************************************************************************)
HexDigits == <<"0", "1", "2", "3", "4", "5", "6", "7",
               "8", "9", "a", "b", "c", "d", "e", "f">>

UpperDigits == <<"A", "B", "C", "D", "E", "F">>

HexVal(ch) ==
    IF \E i \in 1..16 : HexDigits[i] = ch
    THEN (CHOOSE i \in 1..16 : HexDigits[i] = ch) - 1
    ELSE IF \E i \in 1..6 : UpperDigits[i] = ch
    THEN (CHOOSE i \in 1..6 : UpperDigits[i] = ch) + 9
    ELSE -1

ToHex(bytes) ==
    [i \in 1..(2 * Len(bytes)) |->
        IF i % 2 = 1 THEN HexDigits[(bytes[(i + 1) \div 2] \div 16) + 1]
        ELSE HexDigits[(bytes[i \div 2] % 16) + 1]]

FromHex(s) ==
    IF Len(s) % 2 = 1 THEN Err("Hex")
    ELSE IF \E i \in 1..Len(s) : HexVal(s[i]) < 0 THEN Err("Hex")
    ELSE Ok([i \in 1..(Len(s) \div 2) |->
                16 * HexVal(s[2 * i - 1]) + HexVal(s[2 * i])])

(***************************************************************************)
(* Scripts: bitcoin::Script.  A script is its byte sequence.               *)
(***************************************************************************)
OP_RETURN == 106

OP_PUSHDATA1 == 76

OP_PUSHDATA2 == 77

\* script::Builder::push_slice: the shortest push of the data
PushSlice(data) ==
    IF Len(data) < OP_PUSHDATA1 THEN <<Len(data)>> \o data
    ELSE IF Len(data) < 256 THEN <<OP_PUSHDATA1, Len(data)>> \o data
    ELSE <<OP_PUSHDATA2, Len(data) % 256, Len(data) \div 256>> \o data

NewOpReturn(data) == <<OP_RETURN>> \o PushSlice(data)

\* Script::asm: the opcodes and pushes of the script as text
Asm(script) ==
    IF Len(script) >= 2 /\ script[1] = OP_RETURN /\ script[2] < OP_PUSHDATA1
       /\ Len(script) = 2 + script[2]
    THEN <<"OP_RETURN", "OP_PUSHBYTES", ToHex(SliceFrom(script, 2))>>
    ELSE <<"raw", ToHex(script)>>

(***************************************************************************)
(* index_range and the output capacity.                                    *)
(***************************************************************************)
\* a RangeInclusive<u64>: start, end and the exhausted flag of its iterator
Range(s, e) == [start |-> s, end |-> e, exhausted |-> FALSE]

\* index_range without the guard on the order of the bounds
index_range_unguarded(first_index, last_index) ==
    IF last_index.some THEN Range(first_index, last_index.val)
    ELSE Range(first_index, first_index)

index_range(first_index, last_index) ==
    IF last_index.some /\ last_index.val >= first_index
    THEN Range(first_index, last_index.val)
    ELSE Range(first_index, first_index)

saturating_add(a, b) == Min(a + b, U64Max)

saturating_sub(a, b) == Max(a - b, 0)

\* the capacity counted as end - start, the inclusive end forgotten
output_capacity_exclusive(range) == saturating_sub(range.end, range.start)

\* the cast `as usize` keeps the value on a 64-bit target
output_capacity(range) ==
    saturating_sub(saturating_add(range.end, 1), range.start)

\* the loop over start..end instead of start..=end
RangeHasNextExclusive(r) == ~r.exhausted /\ r.start < r.end

\* <RangeInclusive as Iterator>::next: is there a next index, ...
RangeHasNext(r) == ~r.exhausted /\ r.start <= r.end

\* ... and the iterator after yielding r.start
RangeAdvance(r) ==
    IF r.start < r.end THEN [r EXCEPT !.start = r.start + 1]
    ELSE [r EXCEPT !.exhausted = TRUE]

\* the indices a range iterates, in order
RangeIndices(r) ==
    IF RangeHasNext(r) THEN [i \in 1..(r.end - r.start + 1) |-> r.start + i - 1]
    ELSE <<>>

(***************************************************************************)
(* Address types (src/main.rs AddressType and its conversions).            *)
(***************************************************************************)
CliAddressTypes == {"P2pkh", "P2wpkh", "P2tr"}

DefaultAddressType == "P2wpkh"

\* From<AddressType> for bip351::AddressType
IntoBip351(t) ==
    CASE t = "P2pkh" -> "bip351::P2pkh"
      [] t = "P2wpkh" -> "bip351::P2wpkh"
      [] t = "P2tr" -> "bip351::P2tr"

\* From<bip351::AddressType> for AddressType
FromBip351(t) ==
    CASE t = "bip351::P2pkh" -> "P2pkh"
      [] t = "bip351::P2wpkh" -> "P2wpkh"
      [] t = "bip351::P2tr" -> "P2tr"

\* Display for AddressType
AddressTypeToString(t) ==
    CASE t = "P2pkh" -> "p2pkh"
      [] t = "P2wpkh" -> "p2wpkh"
      [] t = "P2tr" -> "p2tr"

\* address_types.into_iter().map(|t| t.into()).collect::<HashSet<_>>()
AcceptedAddresses(address_types) ==
    {IntoBip351(address_types[i]) : i \in 1..Len(address_types)}

(***************************************************************************)
(* The derivation engine (crate bip351), after spec.md sections 3 and 4.   *)
(* Private keys are exponents modulo GroupOrder, public keys are powers of *)
(* GroupG modulo GroupP.                                                   *)
(***************************************************************************)
GroupP == 11

GroupG == 2

GroupOrder == 10

RECURSIVE PowMod(_, _)
PowMod(b, e) == IF e = 0 THEN 1 ELSE (b * PowMod(b, e - 1)) % GroupP

PublicKey(k) == PowMod(GroupG, k)

IsPoint(x) == x \in 1..(GroupP - 1)

RECURSIVE SeedHash(_)
SeedHash(bytes) ==
    IF bytes = <<>> THEN 0
    ELSE (Head(bytes) + 3 * SeedHash(Tail(bytes))) % GroupOrder

\* hardened derivation m/351'/0'/account' of the seed's master key; a seed
\* that fails the length check has no master key
AccountKey(seed, account) ==
    IF Len(seed) = 0 THEN Err("Bip32")
    ELSE Ok(1 + ((3 * SeedHash(seed) + 4 * account) % (GroupOrder - 1)))

TypeTag(t) ==
    CASE t = "bip351::P2pkh" -> 0
      [] t = "bip351::P2wpkh" -> 1
      [] t = "bip351::P2tr" -> 2

LibAddressTypes == {"bip351::P2pkh", "bip351::P2wpkh", "bip351::P2tr"}

TypeOfTag(n) == CHOOSE t \in LibAddressTypes : TypeTag(t) = n

\* the accepted-type flags of a payment code, as a number
RECURSIVE TypeMask(_)
TypeMask(types) ==
    IF types = {} THEN 0
    ELSE LET t == CHOOSE x \in types : TRUE
         IN  (CASE TypeTag(t) = 0 -> 1 [] TypeTag(t) = 1 -> 2 [] TypeTag(t) = 2 -> 4)
             + TypeMask(types \ {t})

TypesOfMask(m) ==
    {t \in LibAddressTypes :
        (m \div (CASE TypeTag(t) = 0 -> 1 [] TypeTag(t) = 1 -> 2 [] TypeTag(t) = 2 -> 4)) % 2 = 1}

PaymentCodeVersion == 1

Checksum(version, pubkey, mask) == (version + 3 * pubkey + 5 * mask) % 7

\* Recipient::from_seed
RecipientFromSeed(seed, account, accepted) ==
    LET k == AccountKey(seed, account)
    IN  IF ~k.ok THEN k
        ELSE Ok([key |-> k.val, account |-> account, accepted |-> accepted])

\* Recipient::payment_code
PaymentCodeOf(recipient) ==
    [version |-> PaymentCodeVersion, pubkey |-> PublicKey(recipient.key),
     types |-> recipient.accepted]

\* Display for PaymentCode: version, key, type flags, checksum
PaymentCodeToString(code) ==
    <<code.version, code.pubkey, TypeMask(code.types),
      Checksum(code.version, code.pubkey, TypeMask(code.types))>>

\* PaymentCode::from_str
PaymentCodeFromStr(s) ==
    IF Len(s) # 4 THEN Err("PrivatePayment")
    ELSE IF s[1] # PaymentCodeVersion THEN Err("PrivatePayment")
    ELSE IF ~IsPoint(s[2]) \/ s[3] \notin 0..7 THEN Err("PrivatePayment")
    ELSE IF s[4] # Checksum(s[1], s[2], s[3]) THEN Err("PrivatePayment")
    ELSE Ok([version |-> s[1], pubkey |-> s[2], types |-> TypesOfMask(s[3])])

\* PaymentCode::address_types, in the order of the type tags
RECURSIVE SortedTypes(_)
SortedTypes(types) ==
    IF types = {} THEN <<>>
    ELSE LET t == CHOOSE x \in types : \A y \in types : TypeTag(x) <= TypeTag(y)
         IN  <<t>> \o SortedTypes(types \ {t})

\* Sender::from_seed
SenderFromSeed(seed, account) ==
    LET k == AccountKey(seed, account)
    IN  IF ~k.ok THEN k ELSE Ok([key |-> k.val, account |-> account])

\* the sender's key for one recipient index
EphemeralKey(sender, recipient_index) ==
    1 + ((7 * sender.key + 3 * recipient_index) % (GroupOrder - 1))

\* the hash binding the shared point to the address type and recipient index
CommitHash(shared, atype, recipient_index) ==
    (3 * shared + 5 * TypeTag(atype) + 7 * recipient_index) % GroupOrder

Commitment(shared, atype, recipient_index, base) ==
    [secret |-> CommitHash(shared, atype, recipient_index),
     atype |-> atype, base |-> base]

Magic == <<80, 80>>

\* the notification payload: magic, contribution key, recipient index, type
NotificationPayload(contribution, recipient_index, atype) ==
    Magic \o <<contribution, recipient_index, TypeTag(atype)>>

\* Sender::notify
SenderNotify(sender, code, recipient_index, atype) ==
    IF atype \notin code.types THEN Err("PrivatePayment")
    ELSE LET e == EphemeralKey(sender, recipient_index)
             shared == PowMod(code.pubkey, e)
         IN  Ok([txout |-> [script_pubkey |->
                               NewOpReturn(NotificationPayload(PublicKey(e),
                                                               recipient_index, atype)),
                            value |-> 0],
                 commitment |-> Commitment(shared, atype, recipient_index,
                                           code.pubkey)])

\* the payload of a provably unspendable output with one direct push
ScriptPayload(script) ==
    IF Len(script) >= 2 /\ script[1] = OP_RETURN /\ script[2] < OP_PUSHDATA1
       /\ Len(script) = 2 + script[2]
    THEN Some(SliceFrom(script, 2))
    ELSE None

\* Recipient::detect_notification
DetectNotification(recipient, script) ==
    LET p == ScriptPayload(script)
    IN  IF ~p.some THEN None
        ELSE IF Len(p.val) # 5 \/ ~StartsWith(p.val, Magic) THEN None
        ELSE IF ~IsPoint(p.val[3]) \/ p.val[5] \notin 0..2 THEN None
        ELSE IF TypeOfTag(p.val[5]) \notin recipient.accepted THEN None
        ELSE Some(Commitment(PowMod(p.val[3], recipient.key),
                             TypeOfTag(p.val[5]), p.val[4],
                             PublicKey(recipient.key)))

\* the per-index tweak
Tweak(commitment, c) == (commitment.secret + 3 * c + 1) % GroupOrder

AddressPrefix(atype) ==
    CASE atype = "bip351::P2pkh" -> "1"
      [] atype = "bip351::P2wpkh" -> "bc1q"
      [] atype = "bip351::P2tr" -> "bc1p"

\* the address of a public key, as text
AddressOf(atype, pubkey) == <<AddressPrefix(atype), pubkey>>

\* Sender::address
SenderAddress(sender, commitment, c) ==
    IF Tweak(commitment, c) = 0 THEN Err("PrivatePayment")
    ELSE Ok(AddressOf(commitment.atype,
                      (commitment.base * PublicKey(Tweak(commitment, c))) % GroupP))

\* Recipient::key_info: (address, public key, private key)
RecipientKeyInfo(recipient, commitment, c) ==
    IF Tweak(commitment, c) = 0 THEN Err("PrivatePayment")
    ELSE LET priv == (recipient.key + Tweak(commitment, c)) % GroupOrder
         IN  Ok([address |-> AddressOf(commitment.atype, PublicKey(priv)),
                 public_key |-> <<"pub", PublicKey(priv)>>,
                 private_key |-> <<"wif", priv>>])

(***************************************************************************)
(* Output (src/main.rs enum Output) and its text.                          *)
(***************************************************************************)
OutputEmpty == [kind |-> "Empty"]

OutputJson(j) == [kind |-> "Json", value |-> j]

OutputPlain(text) == [kind |-> "Plain", text |-> text]

\* one line of plain text, from the values a format! string prints
Line(fields) == [t |-> "line", v |-> fields]

Newline == [t |-> "nl", v |-> <<>>]

\* lines.join("\n")
RECURSIVE Join(_)
Join(lines) ==
    IF Len(lines) = 0 THEN <<>>
    ELSE IF Len(lines) = 1 THEN <<lines[1]>>
    ELSE <<lines[1], Newline>> \o Join(Tail(lines))

\* format!("m/351'/0'/{}'", account)
Bip32Path(account) == <<"m/351'/0'/", account, "'">>

NoResult == [kind |-> "none"]

ResultOk(out) == [kind |-> "ok", out |-> out]

ResultErr(e) == [kind |-> "err", err |-> e]

(***************************************************************************)
(* What the user can type.                                                 *)
(***************************************************************************)
PP == <<80, 80>>

Accounts == {0, 1}

RecipientIndices == {0, 1}

AddressTypeVecs == {<<DefaultAddressType>>, <<"P2pkh">>, <<"P2pkh", "P2wpkh", "P2tr">>}

Indices == 0..U64Max

LastIndices == {None} \cup {Some(n) : n \in Indices}

\* what the seed prompt returns: an I/O failure, or the text typed
SeedPrompts ==
    {[io |-> FALSE, text |-> <<"0", "1">>], [io |-> FALSE, text |-> <<"0", "2">>],
     [io |-> FALSE, text |-> <<>>], [io |-> FALSE, text |-> <<"0", "g">>],
     [io |-> TRUE, text |-> <<>>]}

\* payment codes printed by `receiver code`, a corrupted and a truncated one
PaymentCodeInputs ==
    {PaymentCodeToString(PaymentCodeOf([key |-> AccountKey(<<1>>, 0).val, account |-> 0,
                                        accepted |-> {"bip351::P2wpkh"}])),
     PaymentCodeToString(PaymentCodeOf([key |-> AccountKey(<<2>>, 1).val, account |-> 1,
                                        accepted |-> LibAddressTypes])),
     <<1, 5, 2, 0>>, <<1, 5>>}

\* notification arguments typed by hand: not hex, not a notification, a
\* payload (in capitals) and a script of an unknown sender, a payload with an
\* unknown type tag, payloads around the push limit
NotificationInputs ==
    {<<>>, <<"z", "z">>, <<"5", "0", "5">>,
     ToHex(<<OP_RETURN, 1, 0>>),
     <<"5", "0", "5", "0", "0", "A", "0", "0", "0", "1">>,
     ToHex(NewOpReturn(PP \o <<4, 1, 0>>)),
     ToHex(PP \o <<4, 0, 7>>)}
    \cup {ToHex(PP \o Zeros(n)) : n \in (OP_PUSHDATA1 - 3)..(OP_PUSHDATA1 - 3 + PadOver)}

CodeArgs ==
    [json : BOOLEAN, account : Accounts, address_types : AddressTypeVecs]

DecodeArgs ==
    [notification : NotificationInputs, json : BOOLEAN, account : Accounts,
     address_types : AddressTypeVecs, start_address_index : Indices,
     last_address_index : LastIndices, show_private_key : BOOLEAN]

NotifyArgs ==
    [json : BOOLEAN, account : Accounts, recipient_index : RecipientIndices,
     address_type : CliAddressTypes, recipient_payment_code : PaymentCodeInputs,
     start_address_index : Indices, last_address_index : LastIndices]

(***************************************************************************)
(* The state of a command run.                                             *)
(***************************************************************************)
VARIABLES
    pc,          \* where the run is: idle, prompt, setup, loop, done
    cmd,         \* the subcommand: none, code, decode, notify
    args,        \* its arguments
    script,      \* decode: the script built from the argument; notify: txout.script_pubkey
    prompts,     \* how often the seed prompt was issued in this run
    seedIn,      \* what the prompt returned
    seed,        \* the seed bytes
    recipient,   \* notify: the recipient's payment code; code, decode: the Recipient
    sender,      \* notify: the Sender
    commitment,  \* the commitment of the notification
    range,       \* the effective index range
    capacity,    \* output_capacity
    iter,        \* the iterator of the for loop over the range
    entries,     \* the addresses (JSON) or lines (plain) pushed so far
    engine,      \* how many calls of from_seed, detect_notification, notify so far
    derivs,      \* how many per-index calls of key_info or address so far
    result,      \* the value run() returned
    prev         \* the previous run, when this one follows it

vars == <<pc, cmd, args, script, prompts, seedIn, seed, recipient, sender,
          commitment, range, capacity, iter, entries, engine, derivs, result, prev>>

NoArgs == [json |-> FALSE]

NoParty == [key |-> 0]

NoCommitment == [secret |-> 0]

NoPrev == [kind |-> "none"]

NoSeedIn == [io |-> FALSE, text |-> <<>>]

Init ==
    /\ pc = "idle"
    /\ cmd = "none"
    /\ args = NoArgs
    /\ script = <<>>
    /\ prompts = 0
    /\ seedIn = NoSeedIn
    /\ seed = <<>>
    /\ recipient = NoParty
    /\ sender = NoParty
    /\ commitment = NoCommitment
    /\ range = Range(0, 0)
    /\ capacity = 0
    /\ iter = Range(0, 0)
    /\ entries = <<>>
    /\ engine = 0
    /\ derivs = 0
    /\ result = NoResult
    /\ prev = NoPrev

\* run() returns: nothing of the run's working state matters any more
Return(r) ==
    /\ pc' = "done"
    /\ result' = r

(***************************************************************************)
(* The runs that may follow a finished one.                                *)
(***************************************************************************)
\* the same command line again, in the other output mode
OtherMode(a) == [a EXCEPT !.json = ~a.json]

\* the notification a `sender notify` output shows, as the hex text a user
\* can copy from it: payload and scriptpubkey (JSON), the push of the asm
\* line (plain)
Published(out) ==
    IF out.kind = "Json"
    THEN {out.value.notification.payload, out.value.notification.scriptpubkey}
    ELSE {out.text[1].v[3]}

\* the arguments a run may start with
StartArgs(c, free) ==
    IF prev.kind = "none" THEN free
    ELSE IF prev.cmd = c THEN {OtherMode(prev.args)}
    ELSE IF c = "decode" /\ prev.cmd = "notify" /\ prev.result.kind = "ok"
    THEN {[notification |-> n, json |-> j, account |-> a, address_types |-> t,
           start_address_index |-> prev.args.start_address_index,
           last_address_index |-> prev.args.last_address_index,
           show_private_key |-> p] :
             n \in Published(prev.result.out), j \in BOOLEAN, a \in Accounts,
             t \in AddressTypeVecs, p \in BOOLEAN}
    ELSE {}

\* what the seed prompt may return: the same text when a run is repeated
PromptOutcomes ==
    IF prev.kind # "none" /\ prev.cmd = cmd /\ prev.prompts > 0
    THEN {prev.seedIn} ELSE SeedPrompts

(***************************************************************************)
(* Receiver::run and Sender::run, step by step.                            *)
(***************************************************************************)
\* the decoded argument always taken as the script itself
DecodeScriptRaw(bytes) == bytes

\* the script `receiver decode` builds from the decoded argument
DecodeScript(bytes) ==
    IF StartsWith(bytes, PP) THEN NewOpReturn(bytes) ELSE bytes

\* the payload cut one byte early
PayloadHexFromOne(s) == ToHex(SliceFrom(s, 1))

\* script.to_bytes()[2..].to_hex()
PayloadHex(s) == ToHex(SliceFrom(s, 2))

\* the notification object of both JSON outputs
NotificationJson(s) ==
    [scriptpubkey |-> ToHex(s), payload |-> PayloadHex(s), asm |-> Asm(s)]

\* the keys shown whether asked for or not
DecodeEntryAlwaysKeys(json, show_private_key, c, info) ==
    IF json
    THEN [address |-> info.address, index |-> c,
          public_key |-> info.public_key, private_key |-> info.private_key]
    ELSE Line(<<c, info.address, info.public_key, info.private_key>>)

\* the plain line of -P without the private key
DecodeEntryPlainNoKey(json, show_private_key, c, info) ==
    IF json
    THEN IF show_private_key
         THEN [address |-> info.address, index |-> c,
               public_key |-> info.public_key, private_key |-> info.private_key]
         ELSE [address |-> info.address, index |-> c]
    ELSE Line(<<c, info.address>>)

\* one address of `receiver decode`: a JSON object or a line
DecodeEntry(json, show_private_key, c, info) ==
    IF json
    THEN IF show_private_key
         THEN [address |-> info.address, index |-> c,
               public_key |-> info.public_key, private_key |-> info.private_key]
         ELSE [address |-> info.address, index |-> c]
    ELSE IF show_private_key
         THEN Line(<<c, info.address, info.public_key, info.private_key>>)
         ELSE Line(<<c, info.address>>)

\* one address of `sender notify`
NotifyEntry(json, c, address) ==
    IF json THEN [address |-> address, index |-> c] ELSE Line(<<c, address>>)

CodeOutput(a, r) ==
    IF a.json
    THEN OutputJson([payment_code |-> PaymentCodeToString(PaymentCodeOf(r)),
                     account |-> a.account,
                     bip32_path |-> Bip32Path(a.account),
                     address_types |->
                        [i \in 1..Cardinality(r.accepted) |->
                            AddressTypeToString(FromBip351(SortedTypes(r.accepted)[i]))]])
    ELSE OutputPlain(<<Line(PaymentCodeToString(PaymentCodeOf(r)))>>)

DecodeOutput(a, r, s, es) ==
    IF a.json
    THEN OutputJson([receiver |-> [payment_code |-> PaymentCodeToString(PaymentCodeOf(r)),
                                   account |-> a.account,
                                   bip32_path |-> Bip32Path(a.account)],
                     notification |-> NotificationJson(s),
                     addresses |-> es])
    ELSE OutputPlain(Join(es))

NotifyOutput(a, s, es) ==
    IF a.json
    THEN OutputJson([receiver |-> [payment_code |-> a.recipient_payment_code,
                                   index |-> a.recipient_index],
                     sender |-> [account |-> a.account,
                                 bip32_path |-> Bip32Path(a.account)],
                     notification |-> NotificationJson(s),
                     addresses |-> es])
    ELSE OutputPlain(Join(es))

\* the error of a malformed argument dropped: the run goes on to the prompt
AfterParseIgnored(parsed) == pc' = "prompt" /\ UNCHANGED result

\* the `?` after the decoding of an argument: a malformed one ends the run
AfterParse(parsed) ==
    IF ~parsed.ok THEN Return(ResultErr(parsed.err))
    ELSE pc' = "prompt" /\ UNCHANGED result

\* a failing index skipped instead of reported
DeriveSkipped(e) ==
    /\ iter' = RangeAdvance(iter)
    /\ UNCHANGED <<pc, result, entries>>

\* the `?` after a per-index derivation: its error ends the run
DeriveFailed(e) ==
    /\ Return(ResultErr(e))
    /\ UNCHANGED <<iter, entries>>

\* no notification reported as an error
DecodeNotFoundAsError == ResultErr("PrivatePayment")

\* what `receiver decode` returns when no notification is detected
DecodeNotFound == ResultOk(OutputEmpty)

\* Receiver::Code up to the seed prompt: nothing to decode
StartCode ==
    /\ pc = "idle"
    /\ \E a \in StartArgs("code", CodeArgs) :
        /\ cmd' = "code"
        /\ args' = a
        /\ pc' = "prompt"
    /\ UNCHANGED <<script, prompts, seedIn, seed, recipient, sender, commitment,
                   range, capacity, iter, entries, engine, derivs, result, prev>>

\* Receiver::Decode up to the seed prompt: the argument becomes a script
StartDecode ==
    /\ pc = "idle"
    /\ \E a \in StartArgs("decode", DecodeArgs) :
        /\ cmd' = "decode"
        /\ args' = a
        /\ LET bytes == FromHex(a.notification)
           IN  /\ AfterParse(bytes)
               /\ script' = IF bytes.ok THEN DecodeScript(bytes.val) ELSE script
    /\ UNCHANGED <<prompts, seedIn, seed, recipient, sender, commitment,
                   range, capacity, iter, entries, engine, derivs, prev>>

\* Sender::Notify up to the seed prompt: the payment code is decoded
StartNotify ==
    /\ pc = "idle"
    /\ \E a \in StartArgs("notify", NotifyArgs) :
        /\ cmd' = "notify"
        /\ args' = a
        /\ LET code == PaymentCodeFromStr(a.recipient_payment_code)
           IN  /\ AfterParse(code)
               /\ recipient' = IF code.ok THEN code.val ELSE recipient
    /\ UNCHANGED <<script, prompts, seedIn, seed, sender, commitment,
                   range, capacity, iter, entries, engine, derivs, prev>>

\* get_seed_hex: the prompt, then the hex decoding of what was typed
GetSeedHex ==
    /\ pc = "prompt"
    /\ prompts' = prompts + 1
    /\ \E typed \in PromptOutcomes :
        /\ seedIn' = typed
        /\ IF typed.io
           THEN Return(ResultErr("Dialoguer")) /\ UNCHANGED seed
           ELSE LET bytes == FromHex(typed.text)
                IN  IF ~bytes.ok
                    THEN Return(ResultErr(bytes.err)) /\ UNCHANGED seed
                    ELSE /\ seed' = bytes.val
                         /\ pc' = "setup"
                         /\ UNCHANGED result
    /\ UNCHANGED <<cmd, args, script, recipient, sender, commitment, range,
                   capacity, iter, entries, engine, derivs, prev>>

\* Receiver::Code after the prompt: the recipient and its payment code
CodeSetup ==
    /\ pc = "setup" /\ cmd = "code"
    /\ engine' = engine + 1
    /\ LET r == RecipientFromSeed(seed, args.account, AcceptedAddresses(args.address_types))
       IN  IF ~r.ok
           THEN Return(ResultErr(r.err)) /\ UNCHANGED recipient
           ELSE /\ recipient' = r.val
                /\ Return(ResultOk(CodeOutput(args, r.val)))
    /\ UNCHANGED <<cmd, args, script, prompts, seedIn, seed, sender, commitment,
                   range, capacity, iter, entries, derivs, prev>>

\* Receiver::Decode after the prompt: the recipient, the detection of the
\* notification, the range
DecodeSetup ==
    /\ pc = "setup" /\ cmd = "decode"
    /\ LET r == RecipientFromSeed(seed, args.account, AcceptedAddresses(args.address_types))
       IN  IF ~r.ok
           THEN /\ Return(ResultErr(r.err))
                /\ engine' = engine + 1
                /\ UNCHANGED <<recipient, commitment, range, capacity, iter>>
           ELSE LET found == DetectNotification(r.val, script)
                IN  /\ recipient' = r.val
                    /\ engine' = engine + 2
                    /\ IF ~found.some
                       THEN /\ Return(DecodeNotFound)
                            /\ UNCHANGED <<commitment, range, capacity, iter>>
                       ELSE /\ commitment' = found.val
                            /\ range' = index_range(args.start_address_index,
                                                    args.last_address_index)
                            /\ capacity' = output_capacity(range')
                            /\ iter' = range'
                            /\ pc' = "loop"
                            /\ UNCHANGED result
    /\ UNCHANGED <<cmd, args, script, prompts, seedIn, seed, sender, entries,
                   derivs, prev>>

\* one iteration of the for loop of Receiver::Decode
DecodeDerive ==
    /\ pc = "loop" /\ cmd = "decode"
    /\ RangeHasNext(iter)
    /\ derivs' = derivs + 1
    /\ LET info == RecipientKeyInfo(recipient, commitment, iter.start)
       IN  IF ~info.ok
           THEN DeriveFailed(info.err)
           ELSE /\ entries' = Append(entries,
                                     DecodeEntry(args.json, args.show_private_key,
                                                 iter.start, info.val))
                /\ iter' = RangeAdvance(iter)
                /\ UNCHANGED <<pc, result>>
    /\ UNCHANGED <<cmd, args, script, prompts, seedIn, seed, recipient, sender,
                   commitment, range, capacity, engine, prev>>

\* the end of the loop of Receiver::Decode: the output
DecodeEmit ==
    /\ pc = "loop" /\ cmd = "decode"
    /\ ~RangeHasNext(iter)
    /\ Return(ResultOk(DecodeOutput(args, recipient, script, entries)))
    /\ UNCHANGED <<cmd, args, script, prompts, seedIn, seed, recipient, sender,
                   commitment, range, capacity, iter, entries, engine, derivs, prev>>

\* Sender::Notify after the prompt: the sender, the notification, the range
NotifySetup ==
    /\ pc = "setup" /\ cmd = "notify"
    /\ LET s == SenderFromSeed(seed, args.account)
       IN  IF ~s.ok
           THEN /\ Return(ResultErr(s.err))
                /\ engine' = engine + 1
                /\ UNCHANGED <<sender, script, commitment, range, capacity, iter, entries>>
           ELSE LET n == SenderNotify(s.val, recipient, args.recipient_index,
                                      IntoBip351(args.address_type))
                IN  /\ sender' = s.val
                    /\ engine' = engine + 2
                    /\ IF ~n.ok
                       THEN /\ Return(ResultErr(n.err))
                            /\ UNCHANGED <<script, commitment, range, capacity, iter, entries>>
                       ELSE /\ script' = n.val.txout.script_pubkey
                            /\ commitment' = n.val.commitment
                            /\ range' = index_range(args.start_address_index,
                                                    args.last_address_index)
                            /\ capacity' = output_capacity(range')
                            /\ iter' = range'
                            /\ entries' = IF args.json THEN <<>>
                                          ELSE <<Line(Asm(n.val.txout.script_pubkey))>>
                            /\ pc' = "loop"
                            /\ UNCHANGED result
    /\ UNCHANGED <<cmd, args, prompts, seedIn, seed, recipient, derivs, prev>>

\* one iteration of the for loop of Sender::Notify
NotifyDerive ==
    /\ pc = "loop" /\ cmd = "notify"
    /\ RangeHasNext(iter)
    /\ derivs' = derivs + 1
    /\ LET address == SenderAddress(sender, commitment, iter.start)
       IN  IF ~address.ok
           THEN DeriveFailed(address.err)
           ELSE /\ entries' = Append(entries, NotifyEntry(args.json, iter.start, address.val))
                /\ iter' = RangeAdvance(iter)
                /\ UNCHANGED <<pc, result>>
    /\ UNCHANGED <<cmd, args, script, prompts, seedIn, seed, recipient, sender,
                   commitment, range, capacity, engine, prev>>

\* the end of the loop of Sender::Notify: the output
NotifyEmit ==
    /\ pc = "loop" /\ cmd = "notify"
    /\ ~RangeHasNext(iter)
    /\ Return(ResultOk(NotifyOutput(args, script, entries)))
    /\ UNCHANGED <<cmd, args, script, prompts, seedIn, seed, recipient, sender,
                   commitment, range, capacity, iter, entries, engine, derivs, prev>>

\* the process has exited; the next command starts from nothing
Cleared ==
    /\ pc' = "idle"
    /\ cmd' = "none"
    /\ args' = NoArgs
    /\ script' = <<>>
    /\ prompts' = 0
    /\ seedIn' = NoSeedIn
    /\ seed' = <<>>
    /\ recipient' = NoParty
    /\ sender' = NoParty
    /\ commitment' = NoCommitment
    /\ range' = Range(0, 0)
    /\ capacity' = 0
    /\ iter' = Range(0, 0)
    /\ entries' = <<>>
    /\ engine' = 0
    /\ derivs' = 0
    /\ result' = NoResult

\* main: the result is printed; the user goes on from what was printed
Again ==
    /\ pc = "done"
    /\ prev.kind = "none"
    /\ prev' = [kind |-> "run", cmd |-> cmd, args |-> args, prompts |-> prompts,
                seedIn |-> seedIn, script |-> script, commitment |-> commitment,
                iter |-> iter, derivs |-> derivs, result |-> result]
    /\ Cleared

\* main: the result is printed; an unrelated command follows
Reset ==
    /\ pc = "done"
    /\ prev' = NoPrev
    /\ Cleared

Next ==
    \/ StartCode
    \/ StartDecode
    \/ StartNotify
    \/ GetSeedHex
    \/ CodeSetup
    \/ DecodeSetup
    \/ DecodeDerive
    \/ DecodeEmit
    \/ NotifySetup
    \/ NotifyDerive
    \/ NotifyEmit
    \/ Again
    \/ Reset

Spec == Init /\ [][Next]_vars

(***************************************************************************)
(* Properties.                                                             *)
(***************************************************************************)
\* the run has computed its commitment and its range
RangeSet == "atype" \in DOMAIN commitment

\* the run has built its Recipient
RecipientBuilt == "accepted" \in DOMAIN recipient

\* the indices the arguments ask for, in order
Requested(a) ==
    LET f == a.start_address_index
        l == a.last_address_index
        e == IF l.some /\ l.val >= f THEN l.val ELSE f
    IN  [i \in 1..(e - f + 1) |-> f + i - 1]

\* the lines of a plain text: the text split at its newlines
PlainLines(text) ==
    [i \in 1..((Len(text) + 1) \div 2) |-> text[2 * i - 1].v]

PlainWellFormed(text) ==
    /\ Len(text) % 2 = 1
    /\ \A i \in 1..Len(text) : text[i].t = (IF i % 2 = 1 THEN "line" ELSE "nl")

\* the values a JSON address object shows
EntryFields(e) ==
    IF "private_key" \in DOMAIN e
    THEN <<e.index, e.address, e.public_key, e.private_key>>
    ELSE <<e.index, e.address>>

\* the address entries an output shows, each as the tuple of its values
Shown(c, out) ==
    IF out.kind = "Json"
    THEN [i \in 1..Len(out.value.addresses) |-> EntryFields(out.value.addresses[i])]
    ELSE IF c = "notify" THEN Tail(PlainLines(out.text))
    ELSE PlainLines(out.text)

\* the run ended with an output that is not empty
Succeeded(c) ==
    /\ pc = "done" /\ cmd = c
    /\ result.kind = "ok"
    /\ result.out.kind # "Empty"

\* C1: index_range yields the single index `first` when `last` is absent or
\* below `first`, and first..=last otherwise; the range is never empty, starts
\* at `first` and is never reversed.
C1_IndexRange ==
    RangeSet =>
        LET f == args.start_address_index
            l == args.last_address_index
        IN  /\ (~l.some \/ l.val < f) => (range.start = f /\ range.end = f)
            /\ (l.some /\ l.val >= f) => (range.start = f /\ range.end = l.val)
            /\ range.start = f
            /\ range.start <= range.end
            /\ ~range.exhausted
            /\ RangeIndices(range) = Requested(args)
            /\ Len(RangeIndices(range)) >= 1

\* a run whose last index lies below its first index has computed its range
C1_Witness ==
    /\ RangeSet
    /\ args.last_address_index.some
    /\ args.last_address_index.val < args.start_address_index
    /\ range.start = range.end

\* C10: the output capacity equals the number of indices of the range when
\* the end is below the largest index value, and never exceeds that number.
C10_Capacity ==
    RangeSet =>
        LET n == Len(Requested(args))
        IN  /\ range.end < U64Max => capacity = n
            /\ capacity <= n

\* a range ending at the largest index value: the addition saturates and the
\* capacity is one below the number of indices
C10_Witness ==
    /\ RangeSet
    /\ range.end = U64Max
    /\ range.start < range.end
    /\ capacity = Len(Requested(args)) - 1

\* C6: a successful `receiver decode` with a detected notification and a
\* successful `sender notify` show one entry per index of the effective
\* range, in ascending order, each with the address derived at its index; the
\* plain output of `sender notify` starts with exactly one notification line.
C6_OneEntryPerIndex ==
    \A c \in {"decode", "notify"} :
        Succeeded(c) =>
            LET es == Shown(c, result.out)
                want == Requested(args)
            IN  /\ result.out.kind = "Plain" => PlainWellFormed(result.out.text)
                /\ Len(es) = Len(want)
                /\ \A i \in 1..Len(es) :
                    /\ es[i][1] = want[i]
                    /\ i > 1 => es[i - 1][1] < es[i][1]
                    /\ es[i][2] = (IF c = "notify"
                                   THEN SenderAddress(sender, commitment, want[i]).val
                                   ELSE RecipientKeyInfo(recipient, commitment,
                                                         want[i]).val.address)
                /\ (c = "notify" /\ result.out.kind = "Plain") =>
                    /\ result.out.text[1] = Line(Asm(script))
                    /\ \A i \in 1..Len(es) : Len(es[i]) = 2

\* `sender notify` has printed the notification line and the whole range
C6_Witness ==
    /\ Succeeded("notify")
    /\ result.out.kind = "Plain"
    /\ Len(Shown(cmd, result.out)) = U64Max + 1

\* `receiver decode` has shown the whole range as JSON
C6_WitnessDecode ==
    /\ Succeeded("decode")
    /\ result.out.kind = "Json"
    /\ Len(Shown(cmd, result.out)) = U64Max + 1

\* the script carries the tag "PP" at the start of an OP_RETURN push
HasMagicTag(s) ==
    /\ Len(s) >= 4
    /\ s[1] = OP_RETURN
    /\ SubSeq(s, 3, 4) = PP

\* the tagged script has the layout of a notification
WellFormed(s) ==
    /\ HasMagicTag(s)
    /\ Len(s) = 7 /\ s[2] = 5
    /\ IsPoint(s[5])
    /\ s[7] \in 0..2

\* the script is not a notification for a receiver accepting `accepted`
NotANotification(s, accepted) ==
    \/ ~HasMagicTag(s)
    \/ ~WellFormed(s)
    \/ TypeOfTag(s[7]) \notin accepted

\* C3: when the script given to `receiver decode` is not a notification for
\* this receiver (no magic tag, malformed, or an address type the receiver
\* does not accept), the command returns Ok(Output::Empty): no error, no
\* per-index derivation, no address and no key.
C3_NotFoundIsEmpty ==
    (/\ pc = "done" /\ cmd = "decode"
     /\ RecipientBuilt
     /\ NotANotification(script, recipient.accepted))
        => /\ result = ResultOk(OutputEmpty)
           /\ derivs = 0
           /\ entries = <<>>
           /\ ~RangeSet

\* a well-formed notification of a type the receiver does not accept
C3_Witness ==
    /\ pc = "done" /\ cmd = "decode"
    /\ RecipientBuilt
    /\ WellFormed(script)
    /\ TypeOfTag(script[7]) \notin recipient.accepted
    /\ result = ResultOk(OutputEmpty)

\* a script without the tag, and a tagged one that is malformed
C3_WitnessUntagged ==
    /\ pc = "done" /\ cmd = "decode"
    /\ RecipientBuilt
    /\ ~HasMagicTag(script)
    /\ result = ResultOk(OutputEmpty)

C3_WitnessMalformed ==
    /\ pc = "done" /\ cmd = "decode"
    /\ RecipientBuilt
    /\ HasMagicTag(script) /\ ~WellFormed(script)
    /\ result = ResultOk(OutputEmpty)

\* the derivation of index i in a run of command c
Derive(c, i) ==
    IF c = "notify" THEN SenderAddress(sender, commitment, i)
    ELSE RecipientKeyInfo(recipient, commitment, i)

\* C5: when the derivation fails at some index of the range, `receiver
\* decode` and `sender notify` return that error; they never return an output.
C5_ErrorsPropagate ==
    \A c \in {"decode", "notify"} :
        (/\ pc = "done" /\ cmd = c
         /\ RangeSet
         /\ \E i \in 1..Len(Requested(args)) : ~Derive(c, Requested(args)[i]).ok)
            => LET k == CHOOSE i \in 1..Len(Requested(args)) :
                            /\ ~Derive(c, Requested(args)[i]).ok
                            /\ \A j \in 1..(i - 1) : Derive(c, Requested(args)[j]).ok
               IN  /\ result = ResultErr(Derive(c, Requested(args)[k]).err)
                   /\ iter.start = Requested(args)[k]

\* a derivation has failed after earlier indices had succeeded
C5_Witness ==
    /\ pc = "done" /\ cmd = "decode"
    /\ RangeSet
    /\ Len(entries) > 0
    /\ ~Derive("decode", iter.start).ok
    /\ result.kind = "err"

C5_WitnessNotify ==
    /\ pc = "done" /\ cmd = "notify"
    /\ RangeSet
    /\ derivs > 1
    /\ ~Derive("notify", iter.start).ok
    /\ result.kind = "err"

\* C8: a malformed argument is reported before the seed is asked for: an
\* undecodable payment code in `sender notify` and a notification that is not
\* hex in `receiver decode` end the run with an error and without a prompt; a run
\* prompts at most once, and nothing is derived before the prompt.
C8_ParseBeforeSeed ==
    /\ prompts <= 1
    /\ (engine > 0 \/ derivs > 0) => prompts = 1
    /\ (cmd = "notify" /\ ~PaymentCodeFromStr(args.recipient_payment_code).ok)
        => (pc = "done" /\ result = ResultErr("PrivatePayment") /\ prompts = 0)
    /\ (cmd = "decode" /\ ~FromHex(args.notification).ok)
        => (pc = "done" /\ result = ResultErr("Hex") /\ prompts = 0)

\* `sender notify` has rejected a corrupted payment code
C8_Witness ==
    /\ cmd = "notify" /\ pc = "done"
    /\ ~PaymentCodeFromStr(args.recipient_payment_code).ok
    /\ result.kind = "err"
    /\ prompts = 0

\* `receiver decode` has rejected a notification that is not hex
C8_WitnessDecode ==
    /\ cmd = "decode" /\ pc = "done"
    /\ ~FromHex(args.notification).ok
    /\ result.kind = "err"
    /\ prompts = 0

\* this run follows a run of `sender notify` and decodes what it printed
Piped == prev.kind = "run" /\ prev.cmd = "notify" /\ cmd = "decode"

\* this run repeats the previous command line in the other output mode
Repeated == prev.kind = "run" /\ prev.cmd = cmd

\* the receiver owns the payment code the sender used and accepts the
\* address type of the notification
OwnerAccepting ==
    /\ RecipientBuilt
    /\ PublicKey(recipient.key)
         = PaymentCodeFromStr(prev.args.recipient_payment_code).val.pubkey
    /\ IntoBip351(prev.args.address_type) \in recipient.accepted

\* C2: for every index of the range, the address `receiver decode` derives
\* from the notification a `sender notify` call printed equals the address
\* that call derived, when the receiver owns the payment code and accepts
\* the address type: the receiver re-derives the sender's commitment.
C2_Symmetry ==
    (Piped /\ pc = "done" /\ OwnerAccepting)
        => /\ Succeeded("decode")
           /\ commitment = prev.commitment
           /\ LET mine == Shown("decode", result.out)
                  theirs == Shown("notify", prev.result.out)
              IN  /\ Len(mine) = Len(theirs)
                  /\ Len(mine) = Len(Requested(args))
                  /\ \A i \in 1..Len(mine) :
                        /\ mine[i][1] = theirs[i][1]
                        /\ mine[i][2] = theirs[i][2]

\* the owner has decoded the payload the sender printed, for several indices
C2_Witness ==
    /\ Piped /\ pc = "done" /\ OwnerAccepting
    /\ args.notification = PayloadHex(prev.script)
    /\ Succeeded("decode")
    /\ Len(Shown("decode", result.out)) > 1

\* the owner has decoded the scriptpubkey the sender printed
C2_WitnessScript ==
    /\ Piped /\ pc = "done" /\ OwnerAccepting
    /\ args.notification = ToHex(prev.script)
    /\ Succeeded("decode")

\* C4: the output of `sender notify` never shows a private key; the output of
\* `receiver decode` shows keys only with -P, and without it consists of index
\* and address alone, so that it does not depend on the private keys.
C4_KeysOnlyOnRequest ==
    /\ Succeeded("notify") =>
        /\ \A i \in 1..Len(Shown("notify", result.out)) :
                Len(Shown("notify", result.out)[i]) = 2
        /\ result.out.kind = "Json" =>
                \A i \in 1..Len(result.out.value.addresses) :
                    DOMAIN result.out.value.addresses[i] = {"address", "index"}
    /\ Succeeded("decode") =>
        /\ (\E i \in 1..Len(Shown("decode", result.out)) :
                Len(Shown("decode", result.out)[i]) > 2) => args.show_private_key
        /\ ~args.show_private_key =>
            /\ result.out.kind = "Json" =>
                    \A i \in 1..Len(result.out.value.addresses) :
                        DOMAIN result.out.value.addresses[i] = {"address", "index"}
            /\ result.out =
                 DecodeOutput(args, recipient, script,
                    [i \in 1..Len(Requested(args)) |->
                        DecodeEntry(args.json, FALSE, Requested(args)[i],
                            [address |-> SenderAddress(NoParty, commitment,
                                                       Requested(args)[i]).val,
                             public_key |-> <<>>, private_key |-> <<>>])])

\* `receiver decode` without -P has shown several addresses
C4_Witness ==
    /\ Succeeded("decode")
    /\ ~args.show_private_key
    /\ Len(Shown("decode", result.out)) > 1

\* `receiver decode` with -P has shown keys
C4_WitnessKeys ==
    /\ Succeeded("decode")
    /\ args.show_private_key
    /\ Len(Shown("decode", result.out)[1]) = 4

\* C7: a payload of at most 75 bytes that starts with "PP" is rebuilt by
\* `receiver decode` into OP_RETURN and one direct push of it, the script the
\* sender printed it from, and the payload decode reports is the payload
\* given; an argument that does not start with "PP" is the script as it is.
C7_PayloadRoundTrip ==
    (cmd = "decode" /\ FromHex(args.notification).ok) =>
        LET b == FromHex(args.notification).val
        IN  /\ (StartsWith(b, PP) /\ Len(b) < OP_PUSHDATA1) =>
                /\ script = <<OP_RETURN, Len(b)>> \o b
                /\ SliceFrom(script, 2) = b
                /\ (Succeeded("decode") /\ result.out.kind = "Json") =>
                        FromHex(result.out.value.notification.payload) = Ok(b)
            /\ ~StartsWith(b, PP) => script = b
            /\ (Piped /\ prev.result.kind = "ok") =>
                /\ (prev.result.out.kind = "Json") =>
                        /\ prev.result.out.value.notification.payload
                             = ToHex(SliceFrom(prev.script, 2))
                        /\ prev.result.out.value.notification.scriptpubkey
                             = ToHex(prev.script)
                /\ script = prev.script
                /\ (Succeeded("decode") /\ result.out.kind = "Json"
                    /\ StartsWith(b, PP)) =>
                        result.out.value.notification.payload = args.notification

\* the payload of the sender's JSON output has been decoded and reported
C7_Witness ==
    /\ Piped /\ cmd = "decode"
    /\ prev.result.out.kind = "Json"
    /\ args.notification = prev.result.out.value.notification.payload
    /\ Succeeded("decode") /\ result.out.kind = "Json"
    /\ script = prev.script

\* a payload of 76 bytes is not rebuilt into a direct push
C7_WitnessOverLimit ==
    /\ cmd = "decode" /\ pc = "prompt"
    /\ StartsWith(FromHex(args.notification).val, PP)
    /\ Len(FromHex(args.notification).val) = OP_PUSHDATA1
    /\ SliceFrom(script, 2) # FromHex(args.notification).val

\* C9: in the JSON and in the plain mode `receiver decode` and `sender
\* notify` derive the same indices and, per index, the same address and keys;
\* they fail in one mode exactly when they fail in the other, at the same index.
C9_ModesAgree ==
    (Repeated /\ pc = "done" /\ cmd \in {"decode", "notify"}) =>
        /\ prev.args = OtherMode(args)
        /\ prev.result.kind = result.kind
        /\ prev.derivs = derivs
        /\ prev.iter = iter
        /\ result.kind = "err" => prev.result.err = result.err
        /\ result.kind = "ok" =>
            /\ (prev.result.out.kind = "Empty") <=> (result.out.kind = "Empty")
            /\ result.out.kind # "Empty" =>
                /\ prev.result.out.kind # result.out.kind
                /\ Shown(cmd, prev.result.out) = Shown(cmd, result.out)

\* `receiver decode -P` has shown the same addresses and keys in both modes
C9_Witness ==
    /\ Repeated /\ Succeeded("decode")
    /\ args.show_private_key
    /\ Len(Shown(cmd, result.out)) > 1

\* both modes of `sender notify` have failed at the same later index
C9_WitnessFailure ==
    /\ Repeated /\ cmd = "notify" /\ pc = "done"
    /\ result.kind = "err"
    /\ derivs > 1

====
